---- MODULE Spec2Model ----
(***************************************************************************)
(* Model of the payment webhook of src/payments: BankWebhookView.post      *)
(* working on the tables Organization, Payment and BalanceLog.             *)
(*                                                                         *)
(* The three tables are the committed rows of the database; a row's        *)
(* primary key is its position in the table.  Every submission is handled  *)
(* by its own request handler, numbered in the order of arrival.  The      *)
(* handler's position is pc, its validated data is data, the Organization  *)
(* object it holds is organization, its answer is response.  The writes a *)
(* handler has made inside transaction.atomic() and not yet committed      *)
(* follow from its position (WroteOrganization .. WroteBalanceLog).        *)
(*                                                                         *)
(* The database runs at READ COMMITTED (Django's default): a read sees the *)
(* committed rows and the transaction's own writes; an INSERT that meets   *)
(* an uncommitted row with the same unique key, and an UPDATE of a row     *)
(* another transaction has updated, wait until that transaction ends.      *)
(*                                                                         *)
(* Storage errors (Fail) and the death of the handler's process (Crash)    *)
(* strike inside the atomic block, whose except clause and rollback the    *)
(* view defines; the exists() query before it is taken to complete.        *)
(*                                                                         *)
(* The two read views, OrganizationBalanceView.get and                     *)
(* OrganizationPaymentsView.get_queryset, answer in one step; reply is the *)
(* answer given in the step just taken, if that step was a read.           *)
(***************************************************************************)
EXTENDS Integers, Sequences, FiniteSets, TLC

\* Bounds of the model.
MaxSubmissions == 3
MaxInns == 2
MaxAmount == 1
MaxDocuments == 2
\* Largest value a DecimalField(max_digits=15, decimal_places=2) holds, in
\* units scaled so that the capacity is reached within the bounds.
DecimalMax == 1

Handlers == 1..MaxSubmissions
\* Identifiers are only compared for equality, so they are named in the order
\* of their first use: submission h carries one of the first h operation ids,
\* one of the first h tax ids and one of the first h document numbers.
OperationIds == 1..MaxSubmissions
Inns == 1..MaxInns
Documents == 1..MaxDocuments
\* Amounts a sender may put in the request, among them an invalid one.
RawAmounts == (-1)..MaxAmount

VARIABLES organizations, payments, balance_logs,
          pc, data, organization, created, response, reply

vars == <<organizations, payments, balance_logs,
          pc, data, organization, created, response, reply>>

tables == <<organizations, payments, balance_logs>>

NoData == [operation_id |-> 0, amount |-> 0, payer_inn |-> 0, document_number |-> 0]
NoOrganization == [pk |-> 0, inn |-> 0, balance |-> 0]
NoResponse == [status |-> 0, body |-> "none"]
NoReply == [view |-> "none", inn |-> 0, status |-> 0, balance |-> 0, rows |-> <<>>]

\* Response(status=status.HTTP_200_OK)
Ok200 == [status |-> 200, body |-> "none"]
\* Response({'error': str(e)}, status=status.HTTP_500_INTERNAL_SERVER_ERROR)
Error500(e) == [status |-> 500, body |-> e]
\* serializer.is_valid(raise_exception=True)
Invalid400 == [status |-> 400, body |-> "ValidationError"]

----
\* WebhookSerializer: amount is a decimal of at most max_digits with min_value=0.
is_validNoMin(d) == d.amount <= DecimalMax
is_valid(d) == d.amount >= 0 /\ d.amount <= DecimalMax

\* Payment.objects.filter(operation_id=operation_id).exists()
existsNever(op) == FALSE
exists(op) == \E k \in 1..Len(payments) : payments[k].operation_id = op

\* Organization.objects.get(inn=inn): the primary keys of the committed rows.
OrganizationsByInn(inn) == {k \in 1..Len(organizations) : organizations[k].inn = inn}

\* Uncommitted writes of handler h, by its position in the atomic block.
WroteOrganization(h) == created[h] /\ pc[h] \in {"create_payment", "save", "create_log", "commit"}
WrotePayment(h) == pc[h] \in {"save", "create_log", "commit"}
WroteBalance(h) == pc[h] \in {"create_log", "commit"}
WroteBalanceLog(h) == pc[h] \in {"commit"}

\* INSERT into Organization: inn is unique (models.py).  A committed row with
\* the same inn rejects the INSERT, an uncommitted one makes it wait.
InsertOrganizationNotUnique(h, inn) == "inserted"
InsertOrganization(h, inn) ==
    IF OrganizationsByInn(inn) # {} THEN "IntegrityError"
    ELSE IF \E g \in Handlers \ {h} : WroteOrganization(g) /\ data[g].payer_inn = inn
         THEN "wait"
         ELSE "inserted"

\* INSERT into Payment: operation_id is unique (models.py).
InsertPaymentNotUnique(h, op) == "inserted"
InsertPayment(h, op) ==
    IF \E k \in 1..Len(payments) : payments[k].operation_id = op THEN "IntegrityError"
    ELSE IF \E g \in Handlers \ {h} : WrotePayment(g) /\ data[g].operation_id = op
         THEN "wait"
         ELSE "inserted"

\* UPDATE of an Organization row waits for the transaction that has updated
\* the same row and not yet ended.
RowLocked(h, pk) ==
    \E g \in Handlers \ {h} : WroteBalance(g) /\ organization[g].pk = pk /\ pk # 0

\* Payment.objects.create(operation_id=..., ..., organization=organization)
PaymentRowNoOrganization(d, pk) ==
    [operation_id |-> d.operation_id, amount |-> d.amount, payer_inn |-> d.payer_inn,
     document_number |-> d.document_number, organization |-> 0]
PaymentRow(d, pk) ==
    [operation_id |-> d.operation_id, amount |-> d.amount, payer_inn |-> d.payer_inn,
     document_number |-> d.document_number, organization |-> pk]

\* BalanceLog.objects.create(...) adds a row.
CreateBalanceLog(logs, row) == Append(logs, row)

\* The tables as they are once the writes handler h has made so far are
\* applied: the new Organization row, the new Payment row, the saved balance
\* and the new BalanceLog row.
Applied(h) ==
    LET d == data[h]
        orgs1 == IF WroteOrganization(h)
                 THEN Append(organizations, [inn |-> d.payer_inn, balance |-> 0])
                 ELSE organizations
        pk == IF created[h] THEN Len(orgs1) ELSE organization[h].pk
        orgs2 == IF WroteBalance(h)
                 THEN [orgs1 EXCEPT ![pk].balance = organization[h].balance]
                 ELSE orgs1
        pays == IF WrotePayment(h)
                THEN Append(payments, PaymentRow(d, pk))
                ELSE payments
        logs == IF WroteBalanceLog(h)
                THEN CreateBalanceLog(balance_logs,
                                      [organization |-> pk,
                                       amount |-> d.amount,
                                       new_balance |-> organization[h].balance,
                                       payment |-> Len(pays)])
                ELSE balance_logs
    IN [organizations |-> orgs2, payments |-> pays, balance_logs |-> logs]

\* Leaving transaction.atomic() by an exception rolls every write back.
RollbackPartial(h) == Applied(h)
RollbackDeletes(h) ==
    [organizations |-> organizations,
     payments |-> SelectSeq(payments,
                            LAMBDA row : row.operation_id # data[h].operation_id),
     balance_logs |-> balance_logs]
Rollback(h) ==
    [organizations |-> organizations, payments |-> payments, balance_logs |-> balance_logs]

\* Leaving transaction.atomic() normally commits every write at once.
Committed(h) == Applied(h)

SetTables(t) ==
    /\ organizations' = t.organizations
    /\ payments' = t.payments
    /\ balance_logs' = t.balance_logs

\* A step of the webhook answers no read request.
NoRead == reply' = NoReply

\* return Response(...): the handler ends, its answer stays with the sender.
Return(h, r) ==
    /\ pc' = [pc EXCEPT ![h] = "done"]
    /\ response' = [response EXCEPT ![h] = r]
    /\ data' = [data EXCEPT ![h] = NoData]
    /\ organization' = [organization EXCEPT ![h] = NoOrganization]
    /\ created' = [created EXCEPT ![h] = FALSE]

\* except Exception as e: the transaction is rolled back, the answer is 500.
Raise(h, e) ==
    /\ SetTables(Rollback(h))
    /\ Return(h, Error500(e))

----
Init ==
    /\ organizations = <<>>
    /\ payments = <<>>
    /\ balance_logs = <<>>
    /\ pc = [h \in Handlers |-> "idle"]
    /\ data = [h \in Handlers |-> NoData]
    /\ organization = [h \in Handlers |-> NoOrganization]
    /\ created = [h \in Handlers |-> FALSE]
    /\ response = [h \in Handlers |-> NoResponse]
    /\ reply = NoReply

\* post: serializer.is_valid(raise_exception=True); data = serializer.validated_data
Post(h, d) ==
    /\ pc[h] = "idle"
    /\ \A g \in Handlers : g < h => pc[g] # "idle"
    /\ IF is_valid(d)
       THEN /\ pc' = [pc EXCEPT ![h] = "exists"]
            /\ data' = [data EXCEPT ![h] = d]
            /\ UNCHANGED <<organization, created, response>>
       ELSE Return(h, Invalid400)
    /\ UNCHANGED <<organizations, payments, balance_logs>>
    /\ NoRead

\* if Payment.objects.filter(operation_id=operation_id).exists():
\*     return Response(status=status.HTTP_200_OK)
FastPath(h) ==
    /\ pc[h] = "exists"
    /\ IF exists(data[h].operation_id)
       THEN Return(h, Ok200)
       ELSE /\ pc' = [pc EXCEPT ![h] = "get_or_create"]
            /\ UNCHANGED <<data, organization, created, response>>
    /\ UNCHANGED <<organizations, payments, balance_logs>>
    /\ NoRead

\* Organization.objects.get_or_create(inn=..., defaults={'balance': 0})
GetOrCreate(h) ==
    /\ pc[h] = "get_or_create"
    /\ LET inn == data[h].payer_inn
           found == OrganizationsByInn(inn)
       IN IF found # {}
          THEN \E k \in found :
                 /\ organization' = [organization EXCEPT ![h] =
                        [pk |-> k, inn |-> inn, balance |-> organizations[k].balance]]
                 /\ created' = [created EXCEPT ![h] = FALSE]
          ELSE /\ InsertOrganization(h, inn) = "inserted"
               /\ organization' = [organization EXCEPT ![h] =
                        [pk |-> 0, inn |-> inn, balance |-> 0]]
               /\ created' = [created EXCEPT ![h] = TRUE]
    /\ pc' = [pc EXCEPT ![h] = "create_payment"]
    /\ UNCHANGED <<organizations, payments, balance_logs, data, response>>
    /\ NoRead

\* Payment.objects.create(...)
CreatePayment(h) ==
    /\ pc[h] = "create_payment"
    /\ LET r == InsertPayment(h, data[h].operation_id)
       IN \/ /\ r = "inserted"
             /\ pc' = [pc EXCEPT ![h] = "save"]
             /\ UNCHANGED <<organizations, payments, balance_logs,
                            data, organization, created, response>>
          \/ /\ r = "IntegrityError"
             /\ Raise(h, "IntegrityError")
    /\ NoRead

\* organization.balance += data['amount']
NewBalanceOverwrite(balance, amount) == amount
NewBalance(balance, amount) == balance + amount

\* organization.balance += data['amount']; organization.save()
SaveNoCapacity(h) ==
    /\ pc[h] = "save"
    /\ ~RowLocked(h, organization[h].pk)
    /\ organization' = [organization EXCEPT
                            ![h].balance = organization[h].balance + data[h].amount]
    /\ pc' = [pc EXCEPT ![h] = "create_log"]
    /\ UNCHANGED <<organizations, payments, balance_logs, data, created, response>>
    /\ NoRead
Save(h) ==
    /\ pc[h] = "save"
    /\ LET balance == NewBalance(organization[h].balance, data[h].amount)
       IN IF balance > DecimalMax
          THEN Raise(h, "InvalidOperation")
          ELSE /\ ~RowLocked(h, organization[h].pk)
               /\ organization' = [organization EXCEPT ![h].balance = balance]
               /\ pc' = [pc EXCEPT ![h] = "create_log"]
               /\ UNCHANGED <<organizations, payments, balance_logs,
                              data, created, response>>
    /\ NoRead

\* BalanceLog.objects.create(...)
CreateLog(h) ==
    /\ pc[h] = "create_log"
    /\ pc' = [pc EXCEPT ![h] = "commit"]
    /\ UNCHANGED <<organizations, payments, balance_logs,
                   data, organization, created, response>>
    /\ NoRead

\* End of the with block, then return Response(status=status.HTTP_200_OK).
Commit(h) ==
    /\ pc[h] = "commit"
    /\ SetTables(Committed(h))
    /\ Return(h, Ok200)
    /\ NoRead

InAtomic(h) == pc[h] \in {"get_or_create", "create_payment", "save", "create_log", "commit"}

\* A storage error inside the atomic block.
Fail(h) ==
    /\ InAtomic(h)
    /\ Raise(h, "OperationalError")
    /\ NoRead

\* The handler's process dies inside the atomic block: the database rolls the
\* open transaction back and nothing is answered.
Crash(h) ==
    /\ InAtomic(h)
    /\ SetTables(Rollback(h))
    /\ pc' = [pc EXCEPT ![h] = "crashed"]
    /\ data' = [data EXCEPT ![h] = NoData]
    /\ organization' = [organization EXCEPT ![h] = NoOrganization]
    /\ created' = [created EXCEPT ![h] = FALSE]
    /\ UNCHANGED response
    /\ NoRead

\* OrganizationBalanceView.get: Organization.objects.get(inn=inn), answered
\* through BalanceSerializer, or 404 on Organization.DoesNotExist.
getDefaultZero(inn) ==
    LET found == OrganizationsByInn(inn)
    IN IF found = {}
       THEN [view |-> "balance", inn |-> inn, status |-> 200, balance |-> 0, rows |-> <<>>]
       ELSE LET o == CHOOSE x \in found : TRUE
            IN [view |-> "balance", inn |-> inn, status |-> 200,
                balance |-> organizations[o].balance, rows |-> <<>>]
get(inn) ==
    LET found == OrganizationsByInn(inn)
    IN IF found = {}
       THEN [view |-> "balance", inn |-> inn, status |-> 404, balance |-> 0, rows |-> <<>>]
       ELSE IF Cardinality(found) > 1
       THEN [view |-> "balance", inn |-> inn, status |-> 500, balance |-> 0, rows |-> <<>>]
       ELSE LET o == CHOOSE x \in found : TRUE
            IN [view |-> "balance", inn |-> inn, status |-> 200,
                balance |-> organizations[o].balance, rows |-> <<>>]

\* Payment.objects.all(), newest first (Meta.ordering), as primary keys.
RECURSIVE All(_)
All(n) == IF n = 0 THEN <<>> ELSE <<n>> \o All(n - 1)

\* OrganizationPaymentsView.get_queryset: every Payment, or those of
\* payer_inn when the query parameter is given (0: not given).
get_queryset(payer_inn) ==
    LET all == All(Len(payments))
        queryset == IF payer_inn # 0
                    THEN SelectSeq(all, LAMBDA k : payments[k].payer_inn = payer_inn)
                    ELSE all
    IN [view |-> "payments", inn |-> payer_inn, status |-> 200, balance |-> 0,
        rows |-> queryset]

\* A balance request is answered.
BalanceQuery(inn) ==
    /\ reply' = get(inn)
    /\ UNCHANGED <<organizations, payments, balance_logs,
                   pc, data, organization, created, response>>

\* A payment listing request is answered.
PaymentsQuery(payer_inn) ==
    /\ reply' = get_queryset(payer_inn)
    /\ UNCHANGED <<organizations, payments, balance_logs,
                   pc, data, organization, created, response>>

Requests(h) ==
    [operation_id : {op \in OperationIds : op <= h}, amount : RawAmounts,
     payer_inn : {inn \in Inns : inn <= h},
     document_number : {n \in Documents : n <= h}]

Next ==
    \/ \E h \in Handlers : \E d \in Requests(h) : Post(h, d)
    \/ \E h \in Handlers : FastPath(h)
    \/ \E h \in Handlers : GetOrCreate(h)
    \/ \E h \in Handlers : CreatePayment(h)
    \/ \E h \in Handlers : Save(h)
    \/ \E h \in Handlers : CreateLog(h)
    \/ \E h \in Handlers : Commit(h)
    \/ \E h \in Handlers : Fail(h)
    \/ \E h \in Handlers : Crash(h)

Spec == Init /\ [][Next]_vars

\* The webhook together with the two read views.
NextReads ==
    \/ Next
    \/ \E inn \in Inns : BalanceQuery(inn)
    \/ \E payer_inn \in {0} \cup Inns : PaymentsQuery(payer_inn)

SpecReads == Init /\ [][NextReads]_vars

\* One whole run of post on the tables t with no other request in between:
\* validation, the exists() test, get_or_create, the Payment, the saved
\* balance and the BalanceLog, committed together or not at all.
post(t, d) ==
    IF ~is_valid(d) THEN [tables |-> t, response |-> Invalid400]
    ELSE IF \E k \in 1..Len(t.payments) : t.payments[k].operation_id = d.operation_id
    THEN [tables |-> t, response |-> Ok200]
    ELSE LET found == {k \in 1..Len(t.organizations) :
                           t.organizations[k].inn = d.payer_inn}
             orgs1 == IF found = {}
                      THEN Append(t.organizations, [inn |-> d.payer_inn, balance |-> 0])
                      ELSE t.organizations
             pk == IF found = {} THEN Len(orgs1) ELSE CHOOSE k \in found : TRUE
             balance == NewBalance(orgs1[pk].balance, d.amount)
         IN IF balance > DecimalMax
            THEN [tables |-> t, response |-> Error500("InvalidOperation")]
            ELSE [tables |->
                     [organizations |-> [orgs1 EXCEPT ![pk].balance = balance],
                      payments |-> Append(t.payments, PaymentRow(d, pk)),
                      balance_logs |->
                          CreateBalanceLog(t.balance_logs,
                                           [organization |-> pk,
                                            amount |-> d.amount,
                                            new_balance |-> balance,
                                            payment |-> Len(t.payments) + 1])],
                  response |-> Ok200]

\* The committed tables.
Tables ==
    [organizations |-> organizations, payments |-> payments, balance_logs |-> balance_logs]

\* Handler h serves a request from its first statement to its answer while
\* no other request is being served.
Sequential(h, d) ==
    /\ pc[h] = "idle"
    /\ \A g \in Handlers : g < h => pc[g] # "idle"
    /\ SetTables(post(Tables, d).tables)
    /\ Return(h, post(Tables, d).response)
    /\ NoRead

\* The webhook serving one request at a time.
NextSeq == \E h \in Handlers : \E d \in Requests(h) : Sequential(h, d)

SpecSeq == Init /\ [][NextSeq]_vars

\* The webhook while the store does not fail and no process dies.
NextLive ==
    \/ \E h \in Handlers : \E d \in Requests(h) : Post(h, d)
    \/ \E h \in Handlers : FastPath(h)
    \/ \E h \in Handlers : GetOrCreate(h)
    \/ \E h \in Handlers : CreatePayment(h)
    \/ \E h \in Handlers : Save(h)
    \/ \E h \in Handlers : CreateLog(h)
    \/ \E h \in Handlers : Commit(h)

\* The next statement of handler h, once its request is read.
Run(h) ==
    \/ FastPath(h)
    \/ GetOrCreate(h)
    \/ CreatePayment(h)
    \/ Save(h)
    \/ CreateLog(h)
    \/ Commit(h)

\* Fair scheduling: a handler that can run its next statement is not
\* left waiting forever.
SpecLive == Init /\ [][NextLive]_vars /\ \A h \in Handlers : WF_vars(Run(h))

----
\* Helpers of the properties.
RECURSIVE SumAmount(_, _)
SumAmount(rows, S) ==
    IF S = {} THEN 0
    ELSE LET k == CHOOSE x \in S : TRUE
         IN rows[k].amount + SumAmount(rows, S \ {k})

PaymentRows(op) == {k \in 1..Len(payments) : payments[k].operation_id = op}
PaymentsOf(o) == {k \in 1..Len(payments) : payments[k].organization = o}
LogsOf(o) == {j \in 1..Len(balance_logs) : balance_logs[j].organization = o}
LogsOfPayment(k) == {j \in 1..Len(balance_logs) : balance_logs[j].payment = k}
Answered200 == {h \in Handlers : response[h] = Ok200}
\* Handler h takes a step.
Steps(h) == pc'[h] # pc[h]
\* Handler h is answered in this step.
IsAnswered(h) == response[h] = NoResponse /\ response'[h] # NoResponse

\* C1: for every operation_id that has been applied there is exactly one
\* Payment row, exactly one BalanceLog row linked to it, and the balance of
\* its organization counts the amount of each of its payments exactly once.
Idempotence ==
    \A op \in OperationIds :
        PaymentRows(op) # {} =>
            /\ Cardinality(PaymentRows(op)) = 1
            /\ \A k \in PaymentRows(op) :
                 /\ Cardinality(LogsOfPayment(k)) = 1
                 /\ organizations[payments[k].organization].balance
                      = SumAmount(payments, PaymentsOf(payments[k].organization))

\* The rows part of C1, which the unique operation_id and the rollback keep.
OneRowPerOperation ==
    \A op \in OperationIds :
        /\ Cardinality(PaymentRows(op)) <= 1
        /\ \A k \in PaymentRows(op) : Cardinality(LogsOfPayment(k)) = 1

\* C2: once N submissions with pairwise distinct operation_ids for the same
\* organization have all committed, the balance is the sum of their amounts
\* and there are N Payment rows and N BalanceLog rows.
NoLostUpdates ==
    ( /\ \A h \in Handlers : pc[h] = "done" /\ response[h] = Ok200
      /\ Len(payments) = MaxSubmissions
      /\ \A k \in 1..Len(payments) : payments[k].payer_inn = payments[1].payer_inn )
    => /\ Len(balance_logs) = MaxSubmissions
       /\ \A o \in 1..Len(organizations) :
            organizations[o].balance = SumAmount(payments, 1..Len(payments))

\* C3: for every organization the amounts of its BalanceLog rows add up to
\* its balance.
Reconciliation ==
    \A o \in 1..Len(organizations) :
        SumAmount(balance_logs, LogsOf(o)) = organizations[o].balance

\* C4: a handler that passed the fast-path check and then loses the Payment
\* insert on the unique operation_id is answered 200.
RaceLoserAccepted ==
    [][\A h \in Handlers :
          ( /\ pc[h] = "create_payment"
            /\ PaymentRows(data[h].operation_id) # {}
            /\ IsAnswered(h)
            /\ response'[h].body # "OperationalError" )
          => response'[h] = Ok200]_vars

\* A committed state holds no part of a mutation without the rest: every
\* Payment has its Organization and exactly one BalanceLog row, every
\* BalanceLog row has its Payment, every Organization has a Payment.
WholeMutations ==
    /\ \A k \in 1..Len(payments) :
         /\ payments[k].organization \in 1..Len(organizations)
         /\ Cardinality(LogsOfPayment(k)) = 1
         /\ \A j \in LogsOfPayment(k) :
              balance_logs[j].organization = payments[k].organization
    /\ \A j \in 1..Len(balance_logs) : balance_logs[j].payment \in 1..Len(payments)
    /\ \A o \in 1..Len(organizations) : PaymentsOf(o) # {}

\* A step that changes the committed tables makes one whole mutation visible:
\* one new Payment, its BalanceLog row, the balance of its Organization and,
\* if it is new, that Organization; every other row stays as it was.
OneWholeMutation ==
    LET k == Len(payments) + 1
        j == Len(balance_logs) + 1
    IN /\ Len(payments') = k
       /\ SubSeq(payments', 1, k - 1) = payments
       /\ Len(balance_logs') = j
       /\ SubSeq(balance_logs', 1, j - 1) = balance_logs
       /\ balance_logs'[j].payment = k
       /\ balance_logs'[j].amount = payments'[k].amount
       /\ LET o == payments'[k].organization
          IN /\ o \in 1..Len(organizations')
             /\ organizations'[o].inn = payments'[k].payer_inn
             /\ organizations'[o].balance = balance_logs'[j].new_balance
             /\ Len(organizations') \in {Len(organizations), Len(organizations) + 1}
             /\ Len(organizations') > Len(organizations) => o = Len(organizations')
             /\ \A x \in 1..Len(organizations) :
                  x # o => organizations'[x] = organizations[x]

\* C5: the effects of one submission become visible all together or not at
\* all, also when the handler fails or crashes between them.
Atomicity ==
    [][/\ WholeMutations'
       /\ tables' # tables => OneWholeMutation]_vars

\* A handler is between its balance update and its audit insert, another one
\* has crashed and a third one has committed.
AtomicityWitness ==
    /\ \E h \in Handlers : WroteBalance(h) /\ ~WroteBalanceLog(h)
    /\ \E h \in Handlers : pc[h] = "crashed"
    /\ Len(payments) >= 1

\* C6: a submission that finds a committed Payment with its operation_id is
\* answered 200 without a body, which is also the answer of the submission
\* that commits the Payment.
DuplicateAnswered200 ==
    [][\A h \in Handlers :
          /\ (pc[h] = "exists" /\ PaymentRows(data[h].operation_id) # {} /\ Steps(h))
                => response'[h] = Ok200
          /\ (Steps(h) /\ Len(payments') > Len(payments))
                => response'[h] = Ok200]_vars

\* More submissions were answered 200 than Payments exist: duplicates were.
DuplicateAnswered200Witness ==
    /\ Len(payments) >= 1
    /\ Cardinality(Answered200) > Len(payments)

\* C7: a submission is answered 500 only if no Payment with its operation_id
\* is committed (stated for the answers the storage itself did not fail on).
FailureMeansNotApplied ==
    [][\A h \in Handlers :
          ( /\ IsAnswered(h)
            /\ response'[h].status = 500
            /\ response'[h].body # "OperationalError" )
          => ~\E k \in 1..Len(payments') :
                 payments'[k].operation_id = data[h].operation_id]_vars

\* C8: a submission whose payer_inn matches no Organization creates one with
\* balance 0, which is the payment amount once saved and committed; there is
\* never more than one Organization per inn.
LazyOrganization ==
    [][/\ \A inn \in Inns :
            Cardinality({o \in 1..Len(organizations') : organizations'[o].inn = inn}) <= 1
       /\ \A h \in Handlers :
            /\ ( /\ pc[h] = "get_or_create" /\ pc'[h] = "create_payment"
                 /\ OrganizationsByInn(data[h].payer_inn) = {} )
               => created'[h] /\ organization'[h].balance = 0
            /\ (created[h] /\ pc[h] = "save" /\ pc'[h] = "create_log")
               => organization'[h].balance = data[h].amount
            /\ (created[h] /\ Steps(h) /\ Len(payments') > Len(payments))
               => /\ Len(organizations') = Len(organizations) + 1
                  /\ organizations'[Len(organizations')]
                       = [inn |-> data[h].payer_inn, balance |-> data[h].amount]]_vars

\* One first payment for an unseen inn has created the Organization and saved
\* it while another first payment for the same inn waits in get_or_create.
LazyOrganizationWitness ==
    \E h, g \in Handlers :
        /\ h # g
        /\ created[h] /\ WroteBalance(h)
        /\ pc[g] = "get_or_create"
        /\ data[g].payer_inn = data[h].payer_inn

\* C9: every balance and every new_balance is at least 0.
NonNegative ==
    /\ \A o \in 1..Len(organizations) : organizations[o].balance >= 0
    /\ \A j \in 1..Len(balance_logs) : balance_logs[j].new_balance >= 0

\* A negative amount was refused and a positive one was applied.
NonNegativeWitness ==
    /\ \E h \in Handlers : response[h] = Invalid400
    /\ \E j \in 1..Len(balance_logs) : balance_logs[j].new_balance > 0

\* C10: a step of a submission whose operation_id has a committed Payment
\* leaves the three tables unchanged.
DuplicateNoEffect ==
    [][\A h \in Handlers :
          (Steps(h) /\ PaymentRows(data[h].operation_id) # {})
          => tables' = tables]_vars

\* A submission that differs from the committed Payment of its operation_id
\* in amount, payer_inn and document_number has inserted a new Organization
\* in its transaction.
DuplicateNoEffectWitness ==
    \E h \in Handlers : \E k \in PaymentRows(data[h].operation_id) :
        /\ WroteOrganization(h)
        /\ payments[k].amount # data[h].amount
        /\ payments[k].payer_inn # data[h].payer_inn
        /\ payments[k].document_number # data[h].document_number

\* C13: every BalanceLog row is linked to one Payment and every Payment has
\* one BalanceLog row; the row carries the Payment's amount and organization,
\* and its new_balance is the balance the organization had right before the
\* mutation plus the amount, which is the stored balance right after it.
AuditEntryContent ==
    [][/\ \A k \in 1..Len(payments') :
            Cardinality({j \in 1..Len(balance_logs') : balance_logs'[j].payment = k}) = 1
       /\ \A j \in 1..Len(balance_logs') : balance_logs'[j].payment \in 1..Len(payments')
       /\ tables' # tables =>
            LET k == Len(payments')
                j == Len(balance_logs')
                o == payments'[k].organization
                before == IF o \in 1..Len(organizations)
                          THEN organizations[o].balance ELSE 0
            IN /\ balance_logs'[j].payment = k
               /\ balance_logs'[j].amount = payments'[k].amount
               /\ balance_logs'[j].organization = o
               /\ balance_logs'[j].new_balance = before + payments'[k].amount
               /\ balance_logs'[j].new_balance = organizations'[o].balance]_vars

\* C15: every Payment belongs to one Organization, whose inn is the Payment's
\* payer_inn; the link is set when the Payment is created, is never null and
\* never changes.
PaymentOrganization ==
    [][\A k \in 1..Len(payments') :
          /\ payments'[k].organization \in 1..Len(organizations')
          /\ organizations'[payments'[k].organization].inn = payments'[k].payer_inn
          /\ k <= Len(payments) =>
                payments'[k].organization = payments[k].organization]_vars

\* Payments of two organizations are committed, the later one for the
\* Organization created second.
PaymentOrganizationWitness ==
    /\ Len(organizations) = 2
    /\ \E k, l \in 1..Len(payments) :
          k < l /\ payments[k].organization = 1 /\ payments[l].organization = 2

\* C17: the balance of an Organization never decreases from one committed
\* state to the next.
MonotonicBalance ==
    [][\A o \in 1..Len(organizations) :
          organizations'[o].balance >= organizations[o].balance]_vars

\* C18: no balance exceeds the capacity; a submission whose amount would push
\* the balance above it is answered 500 and leaves the tables unchanged.
BalanceCapacity ==
    [][/\ \A o \in 1..Len(organizations') : organizations'[o].balance <= DecimalMax
       /\ \A h \in Handlers :
            ( /\ pc[h] = "save"
              /\ organization[h].balance + data[h].amount > DecimalMax
              /\ Steps(h) )
            => /\ tables' = tables
               /\ pc'[h] = "done" => response'[h].status = 500]_vars

\* A submission was refused for the capacity while an Organization is full.
BalanceCapacityWitness ==
    /\ \E h \in Handlers : response[h] = Error500("InvalidOperation")
    /\ \E o \in 1..Len(organizations) : organizations[o].balance = DecimalMax

\* C11: no step of the webhook, the balance view or the payment listing
\* removes or changes a committed Payment or BalanceLog row, and an
\* operation_id that is applied stays applied.
AppendOnly ==
    [][/\ Len(payments') >= Len(payments)
       /\ SubSeq(payments', 1, Len(payments)) = payments
       /\ Len(balance_logs') >= Len(balance_logs)
       /\ SubSeq(balance_logs', 1, Len(balance_logs)) = balance_logs
       /\ \A op \in OperationIds :
            PaymentRows(op) # {} =>
               \E k \in 1..Len(payments') : payments'[k].operation_id = op]_vars

\* A read was just answered while two Payments of one Organization are
\* committed and a submission of an applied operation_id is in its
\* transaction.
AppendOnlyWitness ==
    /\ reply # NoReply
    /\ \E k, l \in 1..Len(payments) :
          k # l /\ payments[k].organization = payments[l].organization
    /\ \E h \in Handlers : InAtomic(h) /\ PaymentRows(data[h].operation_id) # {}

\* C12: the balance view answers 404 exactly when no Payment with that
\* payer_inn is committed, else 200 with the inn and the committed balance of
\* its Organization, and changes nothing that is stored.
BalanceAnswer ==
    [][reply'.view = "balance" =>
          /\ UNCHANGED <<organizations, payments, balance_logs,
                         pc, data, organization, created, response>>
          /\ reply'.status = 404
               <=> ~\E k \in 1..Len(payments) : payments[k].payer_inn = reply'.inn
          /\ reply'.status # 404 =>
               /\ reply'.status = 200
               /\ \E o \in 1..Len(organizations) :
                     /\ organizations[o].inn = reply'.inn
                     /\ organizations[o].balance = reply'.balance]_vars

\* The view answered 404 for an inn whose Organization is inserted by a
\* transaction that has not committed, while another Payment is committed.
BalanceAnswerWitness ==
    /\ reply.view = "balance" /\ reply.status = 404
    /\ \E h \in Handlers : WroteOrganization(h) /\ data[h].payer_inn = reply.inn
    /\ Len(payments) >= 1

\* Handler h runs a submission of operation_id op inside the atomic block
\* while another handler does so too.
Duplicates(h, op) ==
    /\ InAtomic(h)
    /\ data[h].operation_id = op
    /\ \E g \in Handlers \ {h} : InAtomic(g) /\ data[g].operation_id = op

\* Handler h leaves the atomic block and answers.
Returns(h) == InAtomic(h) /\ pc'[h] = "done"

\* No submission is being handled.
Quiet == \A h \in Handlers : pc[h] \in {"idle", "done"}

\* C14 as stated: concurrent submissions of one operation_id all return, at
\* most one Payment is created, and the operation_id is eventually applied.
ConvergenceAlways ==
    /\ <>[]Quiet
    /\ [](\A op \in OperationIds : Cardinality(PaymentRows(op)) <= 1)
    /\ \A op \in OperationIds :
         (\E h \in Handlers : Duplicates(h, op)) ~> (PaymentRows(op) # {})

\* C14: under fair scheduling and without store failures, every one of the
\* concurrent submissions of one operation_id eventually returns a response,
\* at most one Payment is created for it, and each of them returns with the
\* operation_id applied unless it is refused because the balance would
\* exceed the capacity of the balance column.
Convergence ==
    /\ <>[]Quiet
    /\ [](\A op \in OperationIds : Cardinality(PaymentRows(op)) <= 1)
    /\ [][\A h \in Handlers :
            Returns(h) =>
                \/ \E k \in 1..Len(payments') :
                       payments'[k].operation_id = data[h].operation_id
                \/ response'[h] = Error500("InvalidOperation")]_vars

\* A submission is about to insert its Payment after a concurrent submission
\* of the same operation_id has committed it.
ConvergenceWitness ==
    \E h \in Handlers :
        /\ pc[h] = "create_payment"
        /\ Cardinality(PaymentRows(data[h].operation_id)) = 1
        /\ \E g \in Handlers \ {h} : response[g] = Ok200

\* The tables without their primary keys: the organizations with their
\* balances, the Payments with the inn of their organization, and how many
\* BalanceLog entries each organization has of each amount.
Canon(t) ==
    [organizations |-> {t.organizations[o] : o \in 1..Len(t.organizations)},
     payments |-> {[operation_id |-> t.payments[k].operation_id,
                    amount |-> t.payments[k].amount,
                    payer_inn |-> t.payments[k].payer_inn,
                    document_number |-> t.payments[k].document_number,
                    organization |-> t.organizations[t.payments[k].organization].inn] :
                   k \in 1..Len(t.payments)},
     deltas |-> [x \in Inns \X (0..MaxAmount) |->
                   Cardinality({j \in 1..Len(t.balance_logs) :
                       /\ t.organizations[t.balance_logs[j].organization].inn = x[1]
                       /\ t.balance_logs[j].amount = x[2]})]]

\* Both orders of the submissions a and b give the same tables.
Commute(t, a, b) ==
    Canon(post(post(t, a).tables, b).tables) = Canon(post(post(t, b).tables, a).tables)

\* Neither a nor b is refused for the capacity of the balance, in either order.
NotRefused(t, a, b) ==
    /\ post(t, a).response # Error500("InvalidOperation")
    /\ post(t, b).response # Error500("InvalidOperation")
    /\ post(post(t, a).tables, b).response # Error500("InvalidOperation")
    /\ post(post(t, b).tables, a).response # Error500("InvalidOperation")

\* The submission d leaves the rows of every organization of another inn as
\* they are.
OthersUnchanged(t, d) ==
    LET u == post(t, d).tables
    IN /\ SubSeq(u.payments, 1, Len(t.payments)) = t.payments
       /\ SubSeq(u.balance_logs, 1, Len(t.balance_logs)) = t.balance_logs
       /\ \A o \in 1..Len(t.organizations) :
            t.organizations[o].inn # d.payer_inn =>
                /\ u.organizations[o] = t.organizations[o]
                /\ \A k \in 1..Len(u.payments) :
                     u.payments[k].organization = o => k <= Len(t.payments)
                /\ \A j \in 1..Len(u.balance_logs) :
                     u.balance_logs[j].organization = o => j <= Len(t.balance_logs)

AllRequests == Requests(MaxSubmissions)

\* C16 as stated: two submissions with different operation_ids give the same
\* tables in both orders, and a submission touches no other organization.
IndependenceAlways ==
    /\ \A a, b \in AllRequests :
         a.operation_id # b.operation_id => Commute(Tables, a, b)
    /\ \A d \in AllRequests : OthersUnchanged(Tables, d)

\* C16: two submissions with different operation_ids, applied one after the
\* other, give the same organizations, balances, Payments and BalanceLog
\* deltas in both orders, provided neither of them is refused in either order
\* because the balance would exceed the capacity of the balance column; and
\* a submission for payer_inn X leaves the balance, Payments and BalanceLog
\* entries of every organization with a different inn unchanged.
Independence ==
    /\ \A a, b \in AllRequests :
         (a.operation_id # b.operation_id /\ NotRefused(Tables, a, b))
             => Commute(Tables, a, b)
    /\ \A d \in AllRequests : OthersUnchanged(Tables, d)

\* Two submissions with different operation_ids and different amounts have
\* been applied one after the other to one organization, next to an
\* organization of another inn.
IndependenceWitness ==
    \E k1, k2, k3 \in 1..Len(payments) :
        /\ payments[k1].operation_id # payments[k2].operation_id
        /\ payments[k1].organization = payments[k2].organization
        /\ payments[k1].amount # payments[k2].amount
        /\ payments[k3].organization # payments[k1].organization
        /\ Quiet

====
